---- MODULE Spec2Model ----
(***************************************************************************)
(* Model of the hash benchmark runners of Blake2b_Security_Research:       *)
(*   "mt"  text-input/code/hashing/hashing_speed_multithread.py            *)
(*         (thread pool over a Queue, file datasets made with fsutil)      *)
(*   "hs"  text-input/code/hashing_speed.py                                *)
(*         (thread pool over a Queue, string datasets written in place)    *)
(*   "st"  text-input/code/hashing/hashing_speed.py                        *)
(*         (sequential loop, file datasets made with fsutil)               *)
(* and of the resource runners                                             *)
(*   "ru"  text-input/code/resource_usage/resource_consumption.py          *)
(*         (sequential loop, file datasets, CPU sample per pass)           *)
(*   "rc"  text-input/code/resource_consumption.py                         *)
(*         (sequential loop, string datasets, one CPU sample per task)     *)
(* One run of one runner is one behaviour; Init chooses the runner, the    *)
(* arguments of the run and the datasets left behind by earlier runs.      *)
(***************************************************************************)
EXTENDS Integers, Sequences, FiniteSets, TLC

\* ---------------------------------------------------------------- bounds
\* largest num_threads tried (the scripts pass MAX_THREADS = 8 resp. 4)
MaxThreads == 2
\* largest number of environment faults (a write or fsutil call that fails)
MaxFaults == 1
\* bytes per "MB" in the model (the scripts use 1024 * 1024)
BytesPerMB == 1
\* largest `iterations` argument tried (the scripts pass MAX_ITERATIONS)
MaxIter == 2
\* largest number of samples per (algorithm, size) given to a t-test routine
MaxSamples == 2

\* ------------------------------------------------------ program constants
MAX_ITERATIONS == 5
RUNS_PER_TEST == 5
MsPerSecond == 1000
\* round(t_stat, 4)
TStatDigits == 4

\* ------------------------------------------------------------ run inputs
\* the <<algorithms, data_sizes_mb>> arguments tried: no task, one task, tasks
\* that share a dataset, tasks with a dataset each, and a name that neither
\* blake3 nor hashlib knows
RunArgs ==
    { << << >>, <<1>> >>,
      << <<"blake3">>, <<1>> >>,
      << <<"blake3", "sha256">>, <<1>> >>,
      << <<"blake3">>, <<1, 2>> >>,
      << <<"nope">>, <<1>> >> }
\* the names for which `blake3(x)` resp. `hashlib.new(algorithm, x)` succeeds
ValidAlgos == {"blake3", "sha256"}
AllAlgos == ValidAlgos \cup {"nope"}
AllSizes == {1, 2}
Impls == {"mt", "hs", "st", "ru", "rc"}
\* the runners that are one loop in the main thread
Sequential == {"st", "ru", "rc"}
\* the runners whose datasets are lists of strings kept in a text file
StringData == {"hs", "rc"}
Workers == 1..MaxThreads

AllTasks == AllAlgos \X AllSizes

VARIABLES
    impl,            \* which runner this run is
    algorithms,      \* argument: list of algorithm names
    data_sizes_mb,   \* argument: list of data sizes
    iterations,      \* argument `iterations` ("mt": MAX_ITERATIONS)
    num_threads,     \* argument num_threads ("st": 1, the main thread)
    main_pc,         \* position of the main thread
    qi,              \* tasks put on the queue so far
    started,         \* threads started so far
    joined,          \* threads joined so far
    queue,           \* queue.Queue contents, head first
    pc,              \* position of each worker
    cur,             \* the task a worker popped and holds
    fs,              \* dataset files: size_mb -> [exists, bytes]
    woff,            \* "hs": file offset of a worker's open-for-write handle
    data,            \* "hs": the list generate_deterministic_strings returned
    timings,         \* "mt"/"st": the timings list of measure_hashing_speed
    lock,            \* the module level Lock: 0 free, else the holder
    timing_results,  \* list of [algo, size_mb, timing]
    summary_results, \* list of summary rows ("hs": results)
    printed,         \* error lines printed by the except handlers
    callSawFile,     \* history: the dataset file existed when the call began
    execCount,       \* history: calls of measure_hashing_speed per task
    failedTasks,     \* history: tasks whose execution raised
    failCause,       \* history: what made the execution of a task raise
    faults,          \* history: environment faults so far
    popped,          \* history: tasks in the order they were popped
    finished,        \* history: tasks in the order of their task_done
    warmed,          \* history: completed warm_up calls per task
    results,         \* resource runners: the list test_resource_usage builds
    cpu_usages,      \* resource runners: CPU samples of the current call
    peak_memory_mb,  \* resource runners: peak_memory_mb of the current call
    res_i,           \* resource runners: rounds of the measuring loop done
    rss_readings,    \* history: the memory readings of the current call
    agg_in,          \* aggregation: the inputs
    agg_out,         \* aggregation: the outputs
    tt_routine,      \* t-tests: which perform_t_tests is applied
    tt_in,           \* t-tests: the samples per (algorithm, size)
    tt_out,          \* t-tests: the comparisons produced
    tt_done,         \* t-tests: the routine has returned
    chain_length,    \* mining client: blocks per round (config.chain_length)
    mine_pc,         \* mining client: position of the script
    round_number,    \* mining client: the round being run
    block,           \* mining client: blocks of the round finished
    tx,              \* mining client: transactions of the block posted
    results_file,    \* mining client: round -> lines of its results file
    load_data,       \* visualization: what load_results returned
    cleared,         \* history: clear_prev_result removed every file
    txFailed,        \* history: a transaction POST of this block failed
    mineRequests,    \* history: mining requests sent per round
    mined,           \* history: mining requests that succeeded per round
    minedAfterTxFail \* history: a block with a failed POST was mined

poolVars == <<main_pc, qi, started, joined, queue, pc, cur, lock>>
argVars == <<impl, algorithms, data_sizes_mb, iterations, num_threads>>
dataVars == <<fs, woff, data, callSawFile>>
resultVars == <<timings, timing_results, summary_results, printed>>
histVars == <<execCount, failedTasks, failCause, faults, popped, finished>>
resVars == <<results, cpu_usages, peak_memory_mb, res_i, rss_readings>>
aggVars == <<agg_in, agg_out>>
ttVars == <<tt_routine, tt_in, tt_out, tt_done>>
mineVars == <<chain_length, mine_pc, round_number, block, tx, results_file,
              load_data, cleared, txFailed, mineRequests, mined,
              minedAfterTxFail>>
auxVars == <<resVars, aggVars, ttVars, mineVars>>
vars == <<argVars, poolVars, dataVars, resultVars, histVars, warmed, auxVars>>

\* ---------------------------------------------------------------- helpers
RECURSIVE SumSeq(_)
SumSeq(s) == IF s = << >> THEN 0 ELSE Head(s) + SumSeq(Tail(s))

RECURSIVE Flatten(_)
Flatten(ss) == IF ss = << >> THEN << >> ELSE Head(ss) \o Flatten(Tail(ss))

Max(a, b) == IF a >= b THEN a ELSE b

\* a quotient a / b of floats, kept exact as <<numerator, denominator>>
Quot(a, b) == <<a, b>>
RatEq(p, q) == p[1] * q[2] = q[1] * p[2]

\* the nested loops `for algo in algorithms: for size_mb in data_sizes_mb`
TaskList(algos, sizes) ==
    [i \in 1..(Len(algos) * Len(sizes)) |->
        <<algos[((i - 1) \div Len(sizes)) + 1], sizes[((i - 1) % Len(sizes)) + 1]>>]

Tasks == TaskList(algorithms, data_sizes_mb)
NumTasks == Len(Tasks)
TaskSet == {Tasks[i] : i \in 1..NumTasks}

NoTask == <<"none", 0>>

RECURSIVE Count(_, _)
Count(s, x) ==
    IF s = << >> THEN 0 ELSE (IF Head(s) = x THEN 1 ELSE 0) + Count(Tail(s), x)

\* ---------------------------------------------------------------- datasets
\* size_bytes = size_mb * 1024 * 1024
SizeBytes(size_mb) == size_mb * BytesPerMB

NoFile == [exists |-> FALSE, bytes |-> << >>]

\* `fsutil file createnew <path> <size_bytes>`: a file of size_bytes zero bytes
ZeroFile(size_mb) ==
    [exists |-> TRUE, bytes |-> [i \in 1..SizeBytes(size_mb) |-> "nul"]]

\* data = [("a" * size_bytes) for _ in range(total)]
DataList(total, size_mb) ==
    [n \in 1..total |-> [i \in 1..SizeBytes(size_mb) |-> "a"]]

\* file.writelines(f"{item}\n" for item in data): the text that is written
FileText(items) == Flatten([n \in 1..Len(items) |-> Append(items[n], "nl")])

\* file.readlines(): the lines, each with its line end, the last one possibly
\* without
RECURSIVE SplitLines(_, _)
SplitLines(bytes, acc) ==
    IF bytes = << >>
    THEN IF acc = << >> THEN << >> ELSE <<acc>>
    ELSE IF Head(bytes) = "nl"
         THEN <<Append(acc, "nl")>> \o SplitLines(Tail(bytes), << >>)
         ELSE SplitLines(Tail(bytes), Append(acc, Head(bytes)))

ReadLines(bytes) == SplitLines(bytes, << >>)

\* str.strip(): leading and trailing whitespace removed (a NUL is no whitespace)
IsSpace(c) == c = "nl"

RECURSIVE LStrip(_)
LStrip(s) == IF s # << >> /\ IsSpace(Head(s)) THEN LStrip(Tail(s)) ELSE s

RECURSIVE RStrip(_)
RStrip(s) ==
    IF s # << >> /\ IsSpace(s[Len(s)]) THEN RStrip(SubSeq(s, 1, Len(s) - 1)) ELSE s

Strip(s) == LStrip(RStrip(s))

\* [line.strip() for line in file.readlines()]
ReadDataset(bytes) ==
    LET ls == ReadLines(bytes) IN [n \in 1..Len(ls) |-> Strip(ls[n])]

\* a write of `chunk` through a handle whose offset is `off`; a handle that
\* writes past the end of a file truncated by another open("w") leaves a hole
WriteAt(bytes, off, chunk) ==
    [i \in 1..Max(Len(bytes), off + Len(chunk)) |->
        IF i > off /\ i <= off + Len(chunk) THEN chunk[i - off]
        ELSE IF i <= Len(bytes) THEN bytes[i]
        ELSE "nul"]

\* the dataset a complete earlier run of the same runner left behind
StoredDataset(im, total, size_mb) ==
    IF im \in StringData
    THEN [exists |-> TRUE, bytes |-> FileText(DataList(total, size_mb))]
    ELSE ZeroFile(size_mb)

\* ------------------------------------------------------------ measurement
\* the clock is the environment's; the model makes the time of a pass a
\* function of the task and the pass, and the time of a hash one of its input
AlgoCost(algo) == IF algo = "blake3" THEN 1 ELSE 2

PassMs(task, pass) == AlgoCost(task[1]) * task[2] * 10 + pass

HashMs(algo, items) == 1 + AlgoCost(algo) * Len(Flatten(items))

\* total_time = sum(timings); avg_time = total_time / RUNS_PER_TEST
\* speed = (data_size_mb * iterations * RUNS_PER_TEST) / (total_time / 1000)
FileSummary(ts, data_size_mb, iters) ==
    LET total_time == SumSeq(ts) IN
    [total |-> total_time,
     avg   |-> Quot(total_time, RUNS_PER_TEST),
     speed |-> Quot(data_size_mb * iters * RUNS_PER_TEST * MsPerSecond, total_time)]

\* total_time_ms = elapsed * 1e3; avg_time_per_hash = total_time_ms / iterations
\* mbps = (data_size_mb * iterations) / elapsed
StringSummary(elapsed_ms, data_size_mb, iters) ==
    [total |-> elapsed_ms,
     avg   |-> Quot(elapsed_ms, iters),
     speed |-> Quot(data_size_mb * iters * MsPerSecond, elapsed_ms)]

SummaryRow(task, iters, s) == <<task[1], task[2], iters, s.total, s.avg, s.speed>>

\* a loop over the timings that stops one short
TimingRows_DropLast(task, ts) ==
    [n \in 1..(Len(ts) - 1) |-> <<task[1], task[2], ts[n]>>]

\* for timing in timings: timing_results.append([algo, size_mb, timing])
TimingRows(task, ts) == [n \in 1..Len(ts) |-> <<task[1], task[2], ts[n]>>]

\* ------------------------------------------------------------------- Init
NoAgg == [size |-> 0, iters |-> 0, ts |-> << >>]

\* the keys of the samples a t-test routine may be given, and no samples at all
TTKeys ==
    { <<"blake3", 1>>, <<"sha256", 1>>, <<"blake2s", 1>>,
      <<"blake3", 2>>, <<"sha256", 2>> }

NoSamples == [k \in TTKeys |-> << >>]

\* the mining client has not been started
MineIdle ==
    /\ chain_length = 0
    /\ mine_pc = "idle"
    /\ round_number = 0
    /\ block = 0
    /\ tx = 0
    /\ results_file = << >>
    /\ load_data = << >>
    /\ cleared = FALSE
    /\ txFailed = FALSE
    /\ mineRequests = << >>
    /\ mined = << >>
    /\ minedAfterTxFail = FALSE

Init ==
    /\ impl \in Impls
    /\ \E a \in RunArgs : algorithms = a[1] /\ data_sizes_mb = a[2]
    /\ iterations \in (IF impl = "mt" THEN {MAX_ITERATIONS}
                       ELSE IF impl = "ru" THEN 0..MaxIter
                       ELSE 1..MaxIter)
    /\ num_threads \in (IF impl \in Sequential THEN {1} ELSE 1..MaxThreads)
    /\ main_pc = IF impl \in Sequential THEN "run"
                 ELSE IF NumTasks = 0 THEN "start" ELSE "enqueue"
    /\ qi = 0
    /\ started = 0
    /\ joined = 0
    /\ queue = << >>
    /\ pc = [w \in Workers |->
                IF impl \in Sequential /\ w = 1 THEN "st_next" ELSE "idle"]
    /\ cur = [w \in Workers |-> NoTask]
    /\ \E pre \in SUBSET {data_sizes_mb[i] : i \in 1..Len(data_sizes_mb)} :
          fs = [k \in AllSizes |->
                  IF k \in pre THEN StoredDataset(impl, iterations, k) ELSE NoFile]
    /\ woff = [w \in Workers |-> 0]
    /\ data = [w \in Workers |-> << >>]
    /\ timings = [w \in Workers |-> << >>]
    /\ lock = 0
    /\ timing_results = << >>
    /\ summary_results = << >>
    /\ printed = << >>
    /\ callSawFile = [w \in Workers |-> FALSE]
    /\ execCount = [t \in AllTasks |-> 0]
    /\ failedTasks = {}
    /\ failCause = [t \in AllTasks |-> "none"]
    /\ faults = 0
    /\ popped = << >>
    /\ finished = << >>
    /\ warmed = [t \in AllTasks |-> 0]
    /\ results = << >>
    /\ cpu_usages = << >>
    /\ peak_memory_mb = 0
    /\ res_i = 0
    /\ rss_readings = << >>
    /\ agg_in = NoAgg
    /\ agg_out = NoAgg
    /\ tt_routine = "none"
    /\ tt_in = NoSamples
    /\ tt_out = << >>
    /\ tt_done = FALSE
    /\ MineIdle

\* ------------------------------------------------------------ main thread
\* a put that pushes in front of the items already there
QueuePut_Front(q, item) == <<item>> \o q

\* Queue.put(item): the item goes to the tail
QueuePut(q, item) == Append(q, item)

\* queue.put((algo, size_mb)) in the nested loops
MainPut ==
    /\ main_pc = "enqueue"
    /\ qi < NumTasks
    /\ queue' = QueuePut(queue, Tasks[qi + 1])
    /\ qi' = qi + 1
    /\ main_pc' = IF qi + 1 = NumTasks THEN "start" ELSE "enqueue"
    /\ UNCHANGED <<argVars, started, joined, pc, cur, lock, dataVars, resultVars,
                   histVars, warmed, auxVars>>

\* thread = Thread(target=worker, ...); thread.start()
MainStartThread ==
    /\ main_pc = "start"
    /\ started < num_threads
    /\ started' = started + 1
    /\ pc' = [pc EXCEPT ![started + 1] = "loop"]
    /\ main_pc' = IF started + 1 = num_threads THEN "join" ELSE "start"
    /\ UNCHANGED <<argVars, qi, joined, queue, cur, lock, dataVars, resultVars,
                   histVars, warmed, auxVars>>

\* thread.join(), in the order the threads were started; the return follows the
\* last join
MainJoin ==
    /\ main_pc = "join"
    /\ pc[joined + 1] \in {"exit", "dead"}
    /\ joined' = joined + 1
    /\ main_pc' = IF joined + 1 = num_threads THEN "returned" ELSE "join"
    /\ UNCHANGED <<argVars, qi, started, queue, pc, cur, lock, dataVars,
                   resultVars, histVars, warmed, auxVars>>

\* ----------------------------------------------------------------- worker
\* a get that hands out the head and leaves it on the queue
QueueGet_Peek(q) == [item |-> Head(q), rest |-> q]

\* a generator that never takes the file it finds (reuse read the wrong way)
CacheHit_Inverted(reuse, exists) == ~reuse /\ exists

\* an except handler that swallows the error without a line
ErrorLines_Silent(im, log, task) == log

\* Queue.get(): the head is removed and returned (under the queue's mutex)
QueueGet(q) == [item |-> Head(q), rest |-> Tail(q)]

\* `if reuse and os.path.exists(dataset_file)` / `if os.path.exists(file_path)`
CacheHit(reuse, exists) == reuse /\ exists

\* what an exception raised inside the try block of the task leads to:
\*   "mt": except Exception -> print; finally -> task_done; the loop goes on
\*   "hs": no except clause: finally -> task_done; the exception ends the thread
\*   "st": except Exception -> print; the for loop goes on
\*   "ru", "rc": no try at all: the exception leaves test_resource_usage and
\*         main, the script ends with a traceback
ErrorLines(im, log, task) == IF im \in {"mt", "st"} THEN Append(log, task) ELSE log

AfterRaise(im) ==
    IF im = "mt" THEN "loop"
    ELSE IF im = "hs" THEN "dead"
    ELSE IF im = "st" THEN "st_next"
    ELSE "crashed"

Raise(w, cause) ==
    /\ printed' = ErrorLines(impl, printed, cur[w])
    /\ failedTasks' = failedTasks \cup {cur[w]}
    /\ failCause' = [failCause EXCEPT ![cur[w]] = cause]
    /\ finished' = Append(finished, cur[w])
    /\ cur' = [cur EXCEPT ![w] = NoTask]
    /\ pc' = [pc EXCEPT ![w] = AfterRaise(impl)]

\* the environment may make a file operation fail, MaxFaults times in a run
Fault == faults < MaxFaults /\ faults' = faults + 1

\* while not queue.empty():
WLoop(w) ==
    /\ pc[w] = "loop"
    /\ pc' = [pc EXCEPT ![w] = IF queue = << >> THEN "exit" ELSE "get"]
    /\ UNCHANGED <<argVars, main_pc, qi, started, joined, queue, cur, lock,
                   dataVars, resultVars, histVars, warmed, auxVars>>

\* algo, size_mb = queue.get(): blocks while the queue is empty
WGet(w) ==
    /\ pc[w] = "get"
    /\ queue # << >>
    /\ cur' = [cur EXCEPT ![w] = QueueGet(queue).item]
    /\ queue' = QueueGet(queue).rest
    /\ popped' = Append(popped, QueueGet(queue).item)
    /\ pc' = [pc EXCEPT ![w] = "measure"]
    /\ UNCHANGED <<argVars, main_pc, qi, started, joined, lock, dataVars,
                   resultVars, execCount, failedTasks, failCause, faults, finished, warmed, auxVars>>

\* sequential runners: the next round of
\* `for algo in algorithms: for size_mb in data_sizes_mb`,
\* and after the last one the CSV files are written and the function returns
WStNext(w) ==
    /\ pc[w] = "st_next"
    /\ IF qi < NumTasks
       THEN /\ cur' = [cur EXCEPT ![w] = Tasks[qi + 1]]
            /\ qi' = qi + 1
            /\ popped' = Append(popped, Tasks[qi + 1])
            /\ pc' = [pc EXCEPT ![w] = "measure"]
            /\ UNCHANGED main_pc
       ELSE /\ pc' = [pc EXCEPT ![w] = "exit"]
            /\ main_pc' = "returned"
            /\ UNCHANGED <<cur, qi, popped>>
    /\ UNCHANGED <<argVars, started, joined, queue, lock, dataVars, resultVars,
                   execCount, failedTasks, failCause, faults, finished, warmed, auxVars>>

\* the call measure_hashing_speed(algo, size_mb[, iterations]), which begins
\* with the call of the dataset generator
WMeasure(w) ==
    /\ pc[w] = "measure"
    /\ execCount' = [execCount EXCEPT ![cur[w]] = @ + 1]
    /\ callSawFile' = [callSawFile EXCEPT ![w] = fs[cur[w][2]].exists]
    /\ pc' = [pc EXCEPT ![w] = "gen_check"]
    /\ UNCHANGED <<argVars, main_pc, qi, started, joined, queue, cur, lock,
                   fs, woff, data, resultVars, failedTasks, failCause, faults, popped,
                   finished, warmed, auxVars>>

\* where a call goes on once its generator has returned: the warm-up pass, the
\* timed hash loop, or the set-up of the resource measurement
AfterGen(im) ==
    IF im \in {"mt", "st"} THEN "warm"
    ELSE IF im = "hs" THEN "hash"
    ELSE "res_begin"

\* the os.path.exists test of the generator (reuse has its default, True)
WGenCheck(w) ==
    /\ pc[w] = "gen_check"
    /\ pc' = [pc EXCEPT ![w] =
                IF CacheHit(TRUE, fs[cur[w][2]].exists)
                THEN (IF impl \in StringData THEN "gen_read" ELSE AfterGen(impl))
                ELSE (IF impl \in StringData THEN "gen_open" ELSE "gen_create")]
    /\ UNCHANGED <<argVars, main_pc, qi, started, joined, queue, cur, lock,
                   dataVars, resultVars, histVars, warmed, auxVars>>

\* `fsutil file createnew`: refuses a path that exists, else makes the file
FsutilCreateNew(file, size_mb) ==
    IF file.exists THEN [ok |-> FALSE, file |-> file]
    ELSE [ok |-> TRUE, file |-> ZeroFile(size_mb)]

\* "mt", "ru": subprocess.run([...], check=True) in try/except/raise: a failed
\*       fsutil raises out of the generator
\* "st": os.system(...): the exit status is dropped and file_path is returned
WGenCreate(w) ==
    /\ pc[w] = "gen_create"
    /\ LET k == cur[w][2]
           r == FsutilCreateNew(fs[k], k) IN
       \/ /\ r.ok
          /\ fs' = [fs EXCEPT ![k] = r.file]
          /\ pc' = [pc EXCEPT ![w] = AfterGen(impl)]
          /\ UNCHANGED <<cur, printed, failedTasks, failCause, finished, faults>>
       \/ /\ ~r.ok
          /\ impl = "st"
          /\ pc' = [pc EXCEPT ![w] = "warm"]
          /\ UNCHANGED <<fs, cur, printed, failedTasks, failCause, finished, faults>>
       \/ /\ ~r.ok
          /\ impl \in {"mt", "ru"}
          /\ Raise(w, "storage")
          /\ UNCHANGED <<fs, faults>>
       \/ /\ r.ok
          /\ Fault
          /\ impl = "st"
          /\ pc' = [pc EXCEPT ![w] = "warm"]
          /\ UNCHANGED <<fs, cur, printed, failedTasks, failCause, finished>>
       \/ /\ r.ok
          /\ Fault
          /\ impl \in {"mt", "ru"}
          /\ Raise(w, "storage")
          /\ UNCHANGED fs
    /\ UNCHANGED <<argVars, main_pc, qi, started, joined, queue, lock, woff, data,
                   callSawFile, timings, timing_results, summary_results,
                   execCount, popped, warmed, auxVars>>

\* a warm_up call that is skipped
WarmUp_Skipped(count, task) == count

\* a completed call warm_up(file_path, hash_function) on behalf of a task
WarmUp(count, task) == [count EXCEPT ![task] = @ + 1]

\* hash_function(chunk): `hashlib.new(algorithm, x)` raises ValueError for a
\* name it does not know
HashRaises(algo) == algo \notin ValidAlgos

\* warm_up(file_path, hash_function): open(file_path, "rb") and one untimed
\* pass; the open raises when the file is missing or cannot be read, the hash
\* of the first chunk when the algorithm is unknown; then `timings = []`
WWarm(w) ==
    /\ pc[w] = "warm"
    /\ \/ /\ fs[cur[w][2]].exists
          /\ ~HashRaises(cur[w][1])
          /\ warmed' = WarmUp(warmed, cur[w])
          /\ timings' = [timings EXCEPT ![w] = << >>]
          /\ pc' = [pc EXCEPT ![w] = "pass"]
          /\ UNCHANGED <<cur, printed, failedTasks, failCause, finished, faults>>
       \/ /\ ~fs[cur[w][2]].exists
          /\ Raise(w, "storage")
          /\ UNCHANGED <<timings, faults, warmed>>
       \/ /\ fs[cur[w][2]].exists
          /\ HashRaises(cur[w][1])
          /\ Raise(w, "config")
          /\ UNCHANGED <<timings, faults, warmed>>
       \/ /\ fs[cur[w][2]].exists
          /\ ~HashRaises(cur[w][1])
          /\ Fault
          /\ Raise(w, "storage")
          /\ UNCHANGED <<timings, warmed>>
    /\ UNCHANGED <<argVars, main_pc, qi, started, joined, queue, lock, dataVars,
                   timing_results, summary_results, execCount, popped, auxVars>>

\* the timings of `for _ in range(RUNS_PER_TEST)`: one timed pass each
PassTimings(task) == [n \in 1..RUNS_PER_TEST |-> PassMs(task, n)]

\* the loop `for _ in range(RUNS_PER_TEST)` of timed passes over the file; the
\* passes only read a file that no step changes once it exists, so the loop is
\* one step
WPass(w) ==
    /\ pc[w] = "pass"
    /\ timings' = [timings EXCEPT ![w] = PassTimings(cur[w])]
    /\ pc' = [pc EXCEPT ![w] = IF impl = "mt" THEN "lock" ELSE "st_append"]
    /\ UNCHANGED <<argVars, main_pc, qi, started, joined, queue, cur, lock,
                   dataVars, timing_results, summary_results, printed, histVars,
                   warmed, auxVars>>

\* an acquire that does not wait for the holder
LockFree_Always(l) == TRUE

\* Lock.acquire() goes through only while the lock is unlocked
LockFree(l) == l = 0

\* with lock: (acquire)
WLock(w) ==
    /\ pc[w] = "lock"
    /\ LockFree(lock)
    /\ lock' = w
    /\ pc' = [pc EXCEPT ![w] = IF impl = "mt" THEN "append_timings"
                               ELSE "append_summary"]
    /\ UNCHANGED <<argVars, main_pc, qi, started, joined, queue, cur, dataVars,
                   resultVars, histVars, warmed, auxVars>>

\* "mt": for timing in timings: timing_results.append([algo, size_mb, timing])
WAppendTimings(w) ==
    /\ pc[w] = "append_timings"
    /\ timing_results' = timing_results \o TimingRows(cur[w], timings[w])
    /\ pc' = [pc EXCEPT ![w] = "append_summary"]
    /\ UNCHANGED <<argVars, main_pc, qi, started, joined, queue, cur, lock,
                   dataVars, timings, summary_results, printed, histVars, warmed, auxVars>>

\* the summary row of the task a worker holds
WorkerRow(w) ==
    IF impl = "hs"
    THEN SummaryRow(cur[w], iterations,
                    StringSummary(timings[w][1], cur[w][2], iterations))
    ELSE SummaryRow(cur[w], iterations,
                    FileSummary(timings[w], cur[w][2], iterations))

\* summary_results.append(...) resp. results.append(...), the end of the with
\* block (release) and the finally clause (queue.task_done())
WAppendSummary(w) ==
    /\ pc[w] = "append_summary"
    /\ summary_results' = Append(summary_results, WorkerRow(w))
    /\ lock' = 0
    /\ finished' = Append(finished, cur[w])
    /\ cur' = [cur EXCEPT ![w] = NoTask]
    /\ pc' = [pc EXCEPT ![w] = "loop"]
    /\ UNCHANGED <<argVars, main_pc, qi, started, joined, queue, dataVars,
                   timings, timing_results, printed, execCount, failedTasks, failCause,
                   faults, popped, warmed, auxVars>>

\* "st": the two appends of the loop body, without a lock
WStAppend(w) ==
    /\ pc[w] = "st_append"
    /\ timing_results' = timing_results \o TimingRows(cur[w], timings[w])
    /\ summary_results' = Append(summary_results, WorkerRow(w))
    /\ finished' = Append(finished, cur[w])
    /\ cur' = [cur EXCEPT ![w] = NoTask]
    /\ pc' = [pc EXCEPT ![w] = "st_next"]
    /\ UNCHANGED <<argVars, main_pc, qi, started, joined, queue, lock, dataVars,
                   timings, printed, execCount, failedTasks, failCause, faults, popped,
                   warmed, auxVars>>

\* "hs" cache hit: open(dataset_file, "r") and
\* return [line.strip() for line in file.readlines()]
WGenRead(w) ==
    /\ pc[w] = "gen_read"
    /\ \/ /\ data' = [data EXCEPT ![w] = ReadDataset(fs[cur[w][2]].bytes)]
          /\ pc' = [pc EXCEPT ![w] = AfterGen(impl)]
          /\ UNCHANGED <<cur, printed, failedTasks, failCause, finished, faults>>
       \/ /\ Fault
          /\ Raise(w, "storage")
          /\ UNCHANGED data
    /\ UNCHANGED <<argVars, main_pc, qi, started, joined, queue, lock, fs, woff,
                   callSawFile, timings, timing_results, summary_results,
                   execCount, popped, warmed, auxVars>>

\* "hs" create: data = [...]; open(dataset_file, "w") makes the file or empties
\* the one that is there
WGenOpen(w) ==
    /\ pc[w] = "gen_open"
    /\ \/ /\ fs' = [fs EXCEPT ![cur[w][2]] = [exists |-> TRUE, bytes |-> << >>]]
          /\ woff' = [woff EXCEPT ![w] = 0]
          /\ pc' = [pc EXCEPT ![w] = "gen_write"]
          /\ UNCHANGED <<cur, printed, failedTasks, failCause, finished, faults>>
       \/ /\ Fault
          /\ Raise(w, "storage")
          /\ UNCHANGED <<fs, woff>>
    /\ UNCHANGED <<argVars, main_pc, qi, started, joined, queue, lock, data,
                   callSawFile, timings, timing_results, summary_results,
                   execCount, popped, warmed, auxVars>>

\* "hs" create: file.writelines(f"{item}\n" for item in data). Every line is
\* longer than the io buffers, so each reaches the file in a write of its own;
\* after the last one the file is closed and the generator returns data. A
\* write that fails (disk full) may have put a part of its line into the file.
WGenWrite(w) ==
    /\ pc[w] = "gen_write"
    /\ LET k == cur[w][2]
           items == DataList(iterations, k)
           text == FileText(items)
           line == Append(items[1], "nl")
           off == woff[w] IN
       \/ /\ fs' = [fs EXCEPT ![k].bytes = WriteAt(@, off, line)]
          /\ woff' = [woff EXCEPT ![w] = off + Len(line)]
          /\ IF off + Len(line) = Len(text)
             THEN /\ data' = [data EXCEPT ![w] = items]
                  /\ pc' = [pc EXCEPT ![w] = AfterGen(impl)]
             ELSE UNCHANGED <<data, pc>>
          /\ UNCHANGED <<cur, printed, failedTasks, failCause, finished, faults>>
       \/ /\ Fault
          /\ \E m \in 0..(Len(line) - 1) :
               fs' = [fs EXCEPT ![k].bytes = WriteAt(@, off, SubSeq(line, 1, m))]
          /\ Raise(w, "storage")
          /\ UNCHANGED <<woff, data>>
    /\ UNCHANGED <<argVars, main_pc, qi, started, joined, queue, lock,
                   callSawFile, timings, timing_results, summary_results,
                   execCount, popped, warmed, auxVars>>

\* "hs": the timed loop `for s in data: hash_function(s.encode('utf-8'))`; the
\* hash of the first item raises when the algorithm is unknown
WHash(w) ==
    /\ pc[w] = "hash"
    /\ IF data[w] # << >> /\ HashRaises(cur[w][1])
       THEN /\ Raise(w, "config")
            /\ UNCHANGED <<timings, execCount, faults, popped>>
       ELSE /\ timings' = [timings EXCEPT ![w] = <<HashMs(cur[w][1], data[w])>>]
            /\ pc' = [pc EXCEPT ![w] = "lock"]
            /\ UNCHANGED <<cur, printed, histVars>>
    /\ UNCHANGED <<argVars, main_pc, qi, started, joined, queue, lock,
                   dataVars, timing_results, summary_results, warmed, auxVars>>

\* ------------------------------------------------------- resource runners
\* what the probes may give: psutil.cpu_percent() and the resident set in MB
CpuValues == {0, 50}
RssValues == {30, 40}

\* a peak that is the latest reading
PeakUpdate_Latest(peak, current) == current

\* peak_memory_mb = max(peak_memory_mb, current_memory_mb)
PeakUpdate(peak, current) == Max(peak, current)

\* after the generator: the hash function is chosen, process =
\* psutil.Process(os.getpid()), peak_memory_mb = 0 ("ru": cpu_usages = [])
WResBegin(w) ==
    /\ pc[w] = "res_begin"
    /\ peak_memory_mb' = 0
    /\ cpu_usages' = << >>
    /\ res_i' = 0
    /\ rss_readings' = << >>
    /\ pc' = [pc EXCEPT ![w] = IF impl = "ru"
                               THEN (IF iterations = 0 THEN "res_append"
                                     ELSE "res_pass")
                               ELSE IF data[w] = << >> THEN "res_cpu"
                               ELSE "res_item"]
    /\ UNCHANGED <<argVars, main_pc, qi, started, joined, queue, cur, lock,
                   dataVars, resultVars, histVars, warmed, results, aggVars,
                   ttVars, mineVars>>

\* "ru": one round of `for _ in range(iterations)`: the file is opened and
\* hashed in chunks, then psutil.cpu_percent() is appended to cpu_usages and
\* process.memory_info().rss raises peak_memory_mb. Nothing catches what the
\* open, the hash or a probe raises.
WResPass(w) ==
    /\ pc[w] = "res_pass"
    /\ \/ /\ ~HashRaises(cur[w][1])
          /\ \E cpu \in CpuValues, rss \in RssValues :
               /\ cpu_usages' = Append(cpu_usages, cpu)
               /\ peak_memory_mb' = PeakUpdate(peak_memory_mb, rss)
               /\ rss_readings' = Append(rss_readings, rss)
          /\ res_i' = res_i + 1
          /\ pc' = [pc EXCEPT ![w] = IF res_i + 1 = iterations THEN "res_append"
                                     ELSE "res_pass"]
          /\ UNCHANGED <<cur, printed, failedTasks, failCause, finished, faults>>
       \/ /\ HashRaises(cur[w][1])
          /\ Raise(w, "config")
          /\ UNCHANGED <<cpu_usages, peak_memory_mb, res_i, rss_readings, faults>>
       \/ /\ ~HashRaises(cur[w][1])
          /\ Fault
          /\ \E cause \in {"storage", "sampler"} : Raise(w, cause)
          /\ UNCHANGED <<cpu_usages, peak_memory_mb, res_i, rss_readings>>
    /\ UNCHANGED <<argVars, main_pc, qi, started, joined, queue, lock, dataVars,
                   timings, timing_results, summary_results, execCount, popped,
                   warmed, results, aggVars, ttVars, mineVars>>

\* "rc": one round of `for s in data`: the item is hashed and
\* process.memory_info().rss raises peak_memory_mb
WResItem(w) ==
    /\ pc[w] = "res_item"
    /\ \/ /\ ~HashRaises(cur[w][1])
          /\ \E rss \in RssValues :
               /\ peak_memory_mb' = PeakUpdate(peak_memory_mb, rss)
               /\ rss_readings' = Append(rss_readings, rss)
          /\ res_i' = res_i + 1
          /\ pc' = [pc EXCEPT ![w] = IF res_i + 1 = Len(data[w]) THEN "res_cpu"
                                     ELSE "res_item"]
          /\ UNCHANGED <<cur, printed, failedTasks, failCause, finished, faults>>
       \/ /\ HashRaises(cur[w][1])
          /\ Raise(w, "config")
          /\ UNCHANGED <<peak_memory_mb, res_i, rss_readings, faults>>
       \/ /\ ~HashRaises(cur[w][1])
          /\ Fault
          /\ Raise(w, "sampler")
          /\ UNCHANGED <<peak_memory_mb, res_i, rss_readings>>
    /\ UNCHANGED <<argVars, main_pc, qi, started, joined, queue, lock, dataVars,
                   timings, timing_results, summary_results, execCount, popped,
                   warmed, results, cpu_usages, aggVars, ttVars, mineVars>>

\* "rc": avg_cpu_usage = psutil.cpu_percent(interval=None) after the loop
WResCpu(w) ==
    /\ pc[w] = "res_cpu"
    /\ \/ /\ \E cpu \in CpuValues : cpu_usages' = <<cpu>>
          /\ pc' = [pc EXCEPT ![w] = "res_append"]
          /\ UNCHANGED <<cur, printed, failedTasks, failCause, finished, faults>>
       \/ /\ Fault
          /\ Raise(w, "sampler")
          /\ UNCHANGED cpu_usages
    /\ UNCHANGED <<argVars, main_pc, qi, started, joined, queue, lock, dataVars,
                   timings, timing_results, summary_results, execCount, popped,
                   warmed, results, peak_memory_mb, res_i, rss_readings, aggVars,
                   ttVars, mineVars>>

\* the rows of a task: "ru" one [algo, size_mb, cpu, peak_memory] per CPU sample,
\* "rc" the one row [algo, size_mb, iterations, avg_cpu, peak_memory]
ResultRows(im, task, iters, cpus, peak) ==
    IF im = "ru"
    THEN [n \in 1..Len(cpus) |-> <<task[1], task[2], cpus[n], peak>>]
    ELSE << <<task[1], task[2], iters, cpus[1], peak>> >>

\* measure_resource_usage returns and test_resource_usage appends the rows
WResAppend(w) ==
    /\ pc[w] = "res_append"
    /\ results' = results \o ResultRows(impl, cur[w], iterations, cpu_usages,
                                        peak_memory_mb)
    /\ finished' = Append(finished, cur[w])
    /\ cur' = [cur EXCEPT ![w] = NoTask]
    /\ pc' = [pc EXCEPT ![w] = "st_next"]
    /\ UNCHANGED <<argVars, main_pc, qi, started, joined, queue, lock, dataVars,
                   resultVars, execCount, failedTasks, failCause, faults, popped,
                   warmed, cpu_usages, peak_memory_mb, res_i, rss_readings,
                   aggVars, ttVars, mineVars>>

WorkerStep(w) ==
    \/ WLoop(w)
    \/ WGet(w)
    \/ WStNext(w)
    \/ WMeasure(w)
    \/ WGenCheck(w)
    \/ WGenCreate(w)
    \/ WWarm(w)
    \/ WPass(w)
    \/ WLock(w)
    \/ WAppendTimings(w)
    \/ WAppendSummary(w)
    \/ WStAppend(w)
    \/ WGenRead(w)
    \/ WGenOpen(w)
    \/ WGenWrite(w)
    \/ WHash(w)
    \/ WResBegin(w)
    \/ WResPass(w)
    \/ WResItem(w)
    \/ WResCpu(w)
    \/ WResAppend(w)

Next ==
    \/ MainPut
    \/ MainStartThread
    \/ MainJoin
    \/ \E w \in Workers : WorkerStep(w)

Spec == Init /\ [][Next]_vars

\* each thread runs whenever it can take a step (the OS schedules every
\* runnable thread)
MainStep == MainPut \/ MainStartThread \/ MainJoin

FairSpec ==
    /\ Spec
    /\ WF_vars(MainStep)
    /\ \A w \in Workers : WF_vars(WorkerStep(w))

\* ------------------------------------------- aggregation as a pure function
\* the elapsed times a clock may give to a pass
PassTimes == {10, 20, 30}

AggInit ==
    /\ impl \in {"mt", "hs"}
    /\ algorithms = << >>
    /\ data_sizes_mb = <<1>>
    /\ iterations = 1
    /\ num_threads = 1
    /\ main_pc = "returned"
    /\ qi = 0
    /\ started = 0
    /\ joined = 0
    /\ queue = << >>
    /\ pc = [w \in Workers |-> "idle"]
    /\ cur = [w \in Workers |-> NoTask]
    /\ fs = [k \in AllSizes |-> NoFile]
    /\ woff = [w \in Workers |-> 0]
    /\ data = [w \in Workers |-> << >>]
    /\ timings = [w \in Workers |-> << >>]
    /\ lock = 0
    /\ timing_results = << >>
    /\ summary_results = << >>
    /\ printed = << >>
    /\ callSawFile = [w \in Workers |-> FALSE]
    /\ execCount = [t \in AllTasks |-> 0]
    /\ failedTasks = {}
    /\ failCause = [t \in AllTasks |-> "none"]
    /\ faults = 0
    /\ popped = << >>
    /\ finished = << >>
    /\ warmed = [t \in AllTasks |-> 0]
    /\ results = << >>
    /\ cpu_usages = << >>
    /\ peak_memory_mb = 0
    /\ res_i = 0
    /\ rss_readings = << >>
    /\ tt_routine = "none"
    /\ tt_in = NoSamples
    /\ tt_out = << >>
    /\ tt_done = FALSE
    /\ MineIdle
    /\ \E size \in AllSizes, iters \in 1..MaxIter :
         \E ts \in [1..(IF impl = "mt" THEN RUNS_PER_TEST ELSE 1) -> PassTimes] :
           agg_in = [size |-> size, iters |-> iters, ts |-> ts]
    /\ agg_out = NoAgg

\* the summary of measure_hashing_speed of the file runners for these timings
AggFile ==
    /\ impl = "mt"
    /\ agg_out = NoAgg
    /\ agg_out' = FileSummary(agg_in.ts, agg_in.size, agg_in.iters)
    /\ UNCHANGED <<argVars, poolVars, dataVars, resultVars, histVars, warmed,
                   resVars, ttVars, mineVars, agg_in>>

\* the summary of measure_hashing_speed of the string runner for this time
AggString ==
    /\ impl = "hs"
    /\ agg_out = NoAgg
    /\ agg_out' = StringSummary(agg_in.ts[1], agg_in.size, agg_in.iters)
    /\ UNCHANGED <<argVars, poolVars, dataVars, resultVars, histVars, warmed,
                   resVars, ttVars, mineVars, agg_in>>

AggNext == AggFile \/ AggString

AggSpec == AggInit /\ [][AggNext]_vars

\* ------------------------------------------------ t-tests as pure functions
\* Natural numbers beyond the machine integers, as their digits to the base
\* 10000, lowest first: the squares compared when a statistic is rounded are
\* of the order of 10^16.
RECURSIVE BigOf(_)
BigOf(n) == IF n = 0 THEN << >> ELSE <<n % 10000>> \o BigOf(n \div 10000)

RECURSIVE BigTrim(_)
BigTrim(ds) ==
    IF ds # << >> /\ ds[Len(ds)] = 0 THEN BigTrim(SubSeq(ds, 1, Len(ds) - 1)) ELSE ds

RECURSIVE BigCarry(_, _)
BigCarry(ds, c) ==
    IF ds = << >> THEN BigOf(c)
    ELSE <<(Head(ds) + c) % 10000>> \o BigCarry(Tail(ds), (Head(ds) + c) \div 10000)

BigAdd(a, b) ==
    BigTrim(BigCarry([i \in 1..Max(Len(a), Len(b)) |->
                        (IF i <= Len(a) THEN a[i] ELSE 0)
                        + (IF i <= Len(b) THEN b[i] ELSE 0)], 0))

\* a times a digit m
BigScale(a, m) == BigTrim(BigCarry([i \in 1..Len(a) |-> a[i] * m], 0))

BigShift(a) == IF a = << >> THEN << >> ELSE <<0>> \o a

RECURSIVE BigMul(_, _)
BigMul(a, b) ==
    IF b = << >> THEN << >>
    ELSE BigAdd(BigScale(a, Head(b)), BigShift(BigMul(a, Tail(b))))

RECURSIVE BigLeq(_, _)
BigLeq(a, b) ==
    IF Len(a) # Len(b) THEN Len(a) < Len(b)
    ELSE IF a = << >> THEN TRUE
    ELSE IF a[Len(a)] # b[Len(b)] THEN a[Len(a)] < b[Len(b)]
    ELSE BigLeq(SubSeq(a, 1, Len(a) - 1), SubSeq(b, 1, Len(b) - 1))

RECURSIVE BigPow10(_)
BigPow10(n) == IF n = 0 THEN <<1>> ELSE BigScale(BigPow10(n - 1), 10)

\* a^2 * m
BigSqTimes(a, m) == BigMul(BigMul(BigOf(a), BigOf(a)), BigOf(m))

\* the values a sample may have, and the sample lists tried
SampleValues == {10, 20}
SampleSeqs == UNION {[1..n -> SampleValues] : n \in 0..MaxSamples}
Ramp(n) == [i \in 1..n |-> 10 * i]

\* the sample sets A = [1,2,3,4,5] and B = [10,20,30,40,50]
WelchExample ==
    [k \in TTKeys |->
        IF k = <<"blake3", 1>> THEN <<1, 2, 3, 4, 5>>
        ELSE IF k = <<"sha256", 1>> THEN <<10, 20, 30, 40, 50>>
        ELSE << >>]

TTRoutines == {"mt", "st", "ru", "hs"}
TTAlgos == <<"blake3", "sha256", "blake2s">>
TTSizes == <<1, 2>>

\* the rows of the results a routine reads: [algorithm, size, value] in the
\* order the runners append them (algorithm-major)
TTRows(in) ==
    Flatten([a \in 1..Len(TTAlgos) |->
        Flatten([k \in 1..Len(TTSizes) |->
            IF <<TTAlgos[a], TTSizes[k]>> \in TTKeys
            THEN [n \in 1..Len(in[<<TTAlgos[a], TTSizes[k]>>]) |->
                    <<TTAlgos[a], TTSizes[k], in[<<TTAlgos[a], TTSizes[k]>>][n]>>]
            ELSE << >>])])

\* subset[subset["Algorithm"] == algo][column].values within one data size
RECURSIVE ValuesOf(_, _, _)
ValuesOf(rows, algo, size) ==
    IF rows = << >> THEN << >>
    ELSE (IF Head(rows)[1] = algo /\ Head(rows)[2] = size
          THEN <<Head(rows)[3]>> ELSE << >>) \o ValuesOf(Tail(rows), algo, size)

\* [r[5] for r in results if r[0] == algo]
RECURSIVE SpeedsOf(_, _)
SpeedsOf(rows, algo) ==
    IF rows = << >> THEN << >>
    ELSE (IF Head(rows)[1] = algo THEN <<Head(rows)[3]>> ELSE << >>)
         \o SpeedsOf(Tail(rows), algo)

\* df["Data Size (MB)"].unique(): the sizes in the order of first appearance
RECURSIVE UniqueSizes(_, _)
UniqueSizes(rows, seen) ==
    IF rows = << >> THEN << >>
    ELSE IF Head(rows)[2] \in seen THEN UniqueSizes(Tail(rows), seen)
    ELSE <<Head(rows)[2]>> \o UniqueSizes(Tail(rows), seen \cup {Head(rows)[2]})

RECURSIVE SumSq(_)
SumSq(s) == IF s = << >> THEN 0 ELSE Head(s) * Head(s) + SumSq(Tail(s))

NaN == [kind |-> "nan", sign |-> 0, num |-> 0, den |-> 1]
Inf(sg) == [kind |-> "inf", sign |-> sg, num |-> 0, den |-> 1]
Sgn(d) == IF d > 0 THEN 1 ELSE IF d < 0 THEN -1 ELSE 0

\* the statistic of ttest_ind(x, y, equal_var=False):
\*   (mean(x) - mean(y)) / sqrt(var(x)/n1 + var(y)/n2), variances with ddof = 1,
\* kept exact as sign * sqrt(num / den). A side of fewer than 2 values has no
\* variance and the statistic is nan; two sides without variance give nan or
\* an infinity. The p-value is a value of Student's distribution function and
\* is not carried.
WelchT(x, y) ==
    LET n1 == Len(x)
        n2 == Len(y)
        d  == SumSeq(x) * n2 - SumSeq(y) * n1
        a1 == n1 * SumSq(x) - SumSeq(x) * SumSeq(x)
        a2 == n2 * SumSq(y) - SumSeq(y) * SumSeq(y)
        den == a1 * n2 * n2 * (n2 - 1) + a2 * n1 * n1 * (n1 - 1)
    IN IF n1 < 2 \/ n2 < 2 THEN NaN
       ELSE IF den = 0 THEN (IF d = 0 THEN NaN ELSE Inf(Sgn(d)))
       ELSE [kind |-> "sqrt", sign |-> Sgn(d),
             num |-> d * d * (n1 - 1) * (n2 - 1), den |-> den]

RECURSIVE Pow10(_)
Pow10(n) == IF n = 0 THEN 1 ELSE 10 * Pow10(n - 1)

\* the largest k in lo..hi with (2k - 1)^2 * den <= bound, given that lo is one
RECURSIVE HalfSearch(_, _, _, _)
HalfSearch(lo, hi, den, bound) ==
    IF lo = hi THEN lo
    ELSE LET mid == (lo + hi + 1) \div 2 IN
         IF BigLeq(BigSqTimes(2 * mid - 1, den), bound)
         THEN HalfSearch(mid, hi, den, bound)
         ELSE HalfSearch(lo, mid - 1, den, bound)

\* round(t, digits) of a float: the decimal k / 10^digits nearest to t, the even
\* k on a tie; nan and the infinities stay what they are
Round(t, digits) ==
    IF t.kind # "sqrt" THEN t
    ELSE LET bound == BigMul(BigOf(4), BigMul(BigPow10(2 * digits), BigOf(t.num)))
             top == ((t.num \div t.den) + 1) * Pow10(digits) + 1
             k == HalfSearch(0, top, t.den, bound)
             tie == k > 0 /\ BigLeq(bound, BigSqTimes(2 * k - 1, t.den))
         IN [kind |-> "dec", sign |-> t.sign,
             num |-> IF tie /\ k % 2 = 1 THEN k - 1 ELSE k, den |-> digits]

comparison_pairs == << <<"blake3", "sha256">>, <<"blake2s", "blake2b">> >>

\* perform_t_tests of the file runners and of the resource runner: per data
\* size and configured pair, a Welch test when both sides have more than one
\* value, its statistic rounded
PerSizeTests(rows, digits) ==
    LET sizes == UniqueSizes(rows, {}) IN
    Flatten([si \in 1..Len(sizes) |->
        Flatten([pi \in 1..Len(comparison_pairs) |->
            LET v1 == ValuesOf(rows, comparison_pairs[pi][1], sizes[si])
                v2 == ValuesOf(rows, comparison_pairs[pi][2], sizes[si])
            IN IF Len(v1) > 1 /\ Len(v2) > 1
               THEN << [size |-> sizes[si],
                        a1 |-> comparison_pairs[pi][1],
                        a2 |-> comparison_pairs[pi][2],
                        t |-> Round(WelchT(v1, v2), digits)] >>
               ELSE << >>])])

\* perform_t_tests of hashing_speed.py: every pair i < j of list(algorithms),
\* the speeds of all sizes together, no test of the lengths, nothing rounded
AllPairsTests(rows, algos) ==
    Flatten([i \in 1..Len(algos) |->
        Flatten([j \in 1..Len(algos) |->
            IF j > i
            THEN << [size |-> 0, a1 |-> algos[i], a2 |-> algos[j],
                     t |-> WelchT(SpeedsOf(rows, algos[i]), SpeedsOf(rows, algos[j]))] >>
            ELSE << >>])])

\* set(r[0] for r in results)
AlgosIn(rows) == {rows[i][1] : i \in 1..Len(rows)}

\* list(algorithms): the elements of a set in some order
Orders(S) ==
    {o \in [1..Cardinality(S) -> S] : \A i, j \in 1..Cardinality(S) : i # j => o[i] # o[j]}

TInit ==
    /\ impl = "mt"
    /\ algorithms = << >>
    /\ data_sizes_mb = <<1>>
    /\ iterations = 1
    /\ num_threads = 1
    /\ main_pc = "returned"
    /\ qi = 0
    /\ started = 0
    /\ joined = 0
    /\ queue = << >>
    /\ pc = [w \in Workers |-> "idle"]
    /\ cur = [w \in Workers |-> NoTask]
    /\ fs = [k \in AllSizes |-> NoFile]
    /\ woff = [w \in Workers |-> 0]
    /\ data = [w \in Workers |-> << >>]
    /\ timings = [w \in Workers |-> << >>]
    /\ lock = 0
    /\ timing_results = << >>
    /\ summary_results = << >>
    /\ printed = << >>
    /\ callSawFile = [w \in Workers |-> FALSE]
    /\ execCount = [t \in AllTasks |-> 0]
    /\ failedTasks = {}
    /\ failCause = [t \in AllTasks |-> "none"]
    /\ faults = 0
    /\ popped = << >>
    /\ finished = << >>
    /\ warmed = [t \in AllTasks |-> 0]
    /\ results = << >>
    /\ cpu_usages = << >>
    /\ peak_memory_mb = 0
    /\ res_i = 0
    /\ rss_readings = << >>
    /\ agg_in = NoAgg
    /\ agg_out = NoAgg
    /\ tt_routine \in TTRoutines
    /\ \/ \E x, y \in SampleSeqs, n3, n4, n5 \in 0..MaxSamples :
            tt_in = [k \in TTKeys |->
                       IF k = <<"blake3", 1>> THEN x
                       ELSE IF k = <<"sha256", 1>> THEN y
                       ELSE IF k = <<"blake2s", 1>> THEN Ramp(n3)
                       ELSE IF k = <<"blake3", 2>> THEN Ramp(n4)
                       ELSE Ramp(n5)]
       \/ tt_in = WelchExample
    /\ tt_out = << >>
    /\ tt_done = FALSE
    /\ MineIdle

\* perform_t_tests of hashing_speed_multithread.py, hashing/hashing_speed.py
\* and resource_usage/resource_consumption.py
TPerSize ==
    /\ tt_routine \in {"mt", "st", "ru"}
    /\ ~tt_done
    /\ tt_out' = PerSizeTests(TTRows(tt_in), TStatDigits)
    /\ tt_done' = TRUE
    /\ UNCHANGED <<argVars, poolVars, dataVars, resultVars, histVars, warmed,
                   resVars, aggVars, tt_routine, tt_in, mineVars>>

\* perform_t_tests of hashing_speed.py
TAllPairs ==
    /\ tt_routine = "hs"
    /\ ~tt_done
    /\ \E algos \in Orders(AlgosIn(TTRows(tt_in))) :
         tt_out' = AllPairsTests(TTRows(tt_in), algos)
    /\ tt_done' = TRUE
    /\ UNCHANGED <<argVars, poolVars, dataVars, resultVars, histVars, warmed,
                   resVars, aggVars, tt_routine, tt_in, mineVars>>

TNext == TPerSize \/ TAllPairs

TSpec == TInit /\ [][TNext]_vars

\* ------------------------------------------------- mining load-test client
\* blocks per round (config.chain_length) range over 1..MaxChain
MaxChain == 2
\* create_rounds lists 9 rounds; the first NumRounds of them are run
NumRounds == 2
\* create_rounds gives 5, 10 and 15 transactions per block: TxStep stands for 5
TxStep == 1
Rounds == 1..NumRounds

\* the values a mining response may carry under 'time took(ns)'
MineTimes == {3, 12}

create_rounds ==
    [i \in Rounds |-> [puzzle |-> 2 * (((i - 1) \div 3) + 1),
                       tx_per_block |-> TxStep * (((i - 1) % 3) + 1)]]

\* a results file: text is kept as a list of lines, a line as a list of
\* characters ending with "nl"
Absent == [exists |-> FALSE, lines |-> << >>]
Digits == <<"0", "1", "2", "3", "4", "5", "6", "7", "8", "9">>

\* str() of a non-negative int, as the f-string formats time_took
RECURSIVE IntStr(_)
IntStr(n) ==
    IF n < 10 THEN <<Digits[n + 1]>>
    ELSE IntStr(n \div 10) \o <<Digits[(n % 10) + 1]>>

\* the JSON object of a mining response: << >> has no 'time took(ns)' key,
\* <<t>> carries the value t
ResponseData == {<< >>} \cup {<<t>> : t \in MineTimes}

\* the line run_round writes for a response
TimeTookLine(response_data) ==
    (IF response_data = << >> THEN <<"N", "/", "A">>
     ELSE IntStr(response_data[1])) \o <<"nl">>

AppendLine(f, line) == [exists |-> TRUE, lines |-> Append(f.lines, line)]

IsDigit(c) == \E d \in 1..10 : Digits[d] = c
DigitVal(c) == CHOOSE d \in 0..9 : Digits[d + 1] = c

RECURSIVE DigitsVal(_)
DigitsVal(cs) ==
    IF cs = << >> THEN 0
    ELSE DigitsVal(SubSeq(cs, 1, Len(cs) - 1)) * 10 + DigitVal(cs[Len(cs)])

\* int() of a string: an optional sign and then decimal digits, anything
\* else raises ValueError (ok = FALSE)
ParseInt(cs) ==
    LET signed == cs # << >> /\ cs[1] \in {"+", "-"}
        body == IF signed THEN Tail(cs) ELSE cs
        sign == IF signed /\ cs[1] = "-" THEN -1 ELSE 1
    IN IF body # << >> /\ \A i \in 1..Len(body) : IsDigit(body[i])
       THEN [ok |-> TRUE, val |-> sign * DigitsVal(body)]
       ELSE [ok |-> FALSE, val |-> 0]

RECURSIVE SumTimes(_)
SumTimes(ls) ==
    IF ls = << >> THEN 0
    ELSE ParseInt(Strip(Head(ls))).val + SumTimes(Tail(ls))

\* the entries load_results appends, from round i on; the average is kept
\* as the fraction ns_num / ns_den of nanoseconds
RECURSIVE LoadFrom(_, _)
LoadFrom(files, i) ==
    IF i > NumRounds THEN << >>
    ELSE (IF files[i].exists
          THEN <<[Round |-> i,
                  ns_num |-> SumTimes(files[i].lines),
                  ns_den |-> IF files[i].lines = << >> THEN 1
                             ELSE Len(files[i].lines)]>>
          ELSE << >>) \o LoadFrom(files, i + 1)

NotLoaded == [raised |-> "none", data |-> << >>]

\* load_results of visualization/main.py for one hash name
load_results(files) ==
    IF \E r \in Rounds : \E i \in 1..Len(files[r].lines) :
          files[r].exists /\ ~ParseInt(Strip(files[r].lines[i])).ok
    THEN [raised |-> "ValueError", data |-> << >>]
    ELSE [raised |-> "none", data |-> LoadFrom(files, 1)]

\* a results file left by an earlier run
StaleFile == AppendLine(Absent, TimeTookLine(<<7>>))

MineInit ==
    /\ impl = "mt"
    /\ algorithms = << >>
    /\ data_sizes_mb = <<1>>
    /\ iterations = 1
    /\ num_threads = 1
    /\ main_pc = "returned"
    /\ qi = 0
    /\ started = 0
    /\ joined = 0
    /\ queue = << >>
    /\ pc = [w \in Workers |-> "idle"]
    /\ cur = [w \in Workers |-> NoTask]
    /\ fs = [k \in AllSizes |-> NoFile]
    /\ woff = [w \in Workers |-> 0]
    /\ data = [w \in Workers |-> << >>]
    /\ timings = [w \in Workers |-> << >>]
    /\ lock = 0
    /\ timing_results = << >>
    /\ summary_results = << >>
    /\ printed = << >>
    /\ callSawFile = [w \in Workers |-> FALSE]
    /\ execCount = [t \in AllTasks |-> 0]
    /\ failedTasks = {}
    /\ failCause = [t \in AllTasks |-> "none"]
    /\ faults = 0
    /\ popped = << >>
    /\ finished = << >>
    /\ warmed = [t \in AllTasks |-> 0]
    /\ results = << >>
    /\ cpu_usages = << >>
    /\ peak_memory_mb = 0
    /\ res_i = 0
    /\ rss_readings = << >>
    /\ agg_in = NoAgg
    /\ agg_out = NoAgg
    /\ tt_routine = "none"
    /\ tt_in = NoSamples
    /\ tt_out = << >>
    /\ tt_done = FALSE
    /\ chain_length \in 1..MaxChain
    /\ mine_pc = "clear"
    /\ round_number = 0
    /\ block = 0
    /\ tx = 0
    /\ results_file \in [Rounds -> {Absent, StaleFile}]
    /\ load_data = NotLoaded
    /\ cleared = FALSE
    /\ txFailed = FALSE
    /\ mineRequests = [r \in Rounds |-> 0]
    /\ mined = [r \in Rounds |-> 0]
    /\ minedAfterTxFail = FALSE

\* clear_prev_result: os.remove file by file; an exception ends the loop and
\* is swallowed, so any subset of the files may be gone afterwards.  The
\* script then enters the first round.
clear_prev_result ==
    /\ mine_pc = "clear"
    /\ \E removed \in SUBSET Rounds :
         results_file' = [r \in Rounds |-> IF r \in removed THEN Absent
                                           ELSE results_file[r]]
    /\ cleared' = \A r \in Rounds : ~results_file'[r].exists
    /\ mine_pc' = "tx"
    /\ round_number' = 1
    /\ block' = 0
    /\ tx' = 0
    /\ UNCHANGED <<argVars, poolVars, dataVars, resultVars, histVars, warmed,
                   resVars, aggVars, ttVars, chain_length, load_data,
                   txFailed, mineRequests, mined, minedAfterTxFail>>

\* run_round, one requests.post of the inner loop: a RequestException is
\* printed and the loop goes on
PostTx ==
    /\ mine_pc = "tx"
    /\ \E ok \in BOOLEAN : txFailed' = (txFailed \/ ~ok)
    /\ tx' = tx + 1
    /\ mine_pc' = IF tx' = create_rounds[round_number].tx_per_block
                  THEN "mine" ELSE "tx"
    /\ UNCHANGED <<argVars, poolVars, dataVars, resultVars, histVars, warmed,
                   resVars, aggVars, ttVars, chain_length, round_number,
                   block, results_file, load_data, cleared, mineRequests,
                   mined, minedAfterTxFail>>

\* run_round, the end of one block: next block, next round, or the end of
\* the rounds of this hash name
AfterBlock ==
    /\ mineRequests' = [mineRequests EXCEPT ![round_number] = @ + 1]
    /\ minedAfterTxFail' = (minedAfterTxFail \/ txFailed)
    /\ txFailed' = FALSE
    /\ tx' = 0
    /\ IF block + 1 < chain_length
       THEN /\ block' = block + 1
            /\ round_number' = round_number
            /\ mine_pc' = "tx"
       ELSE IF round_number < NumRounds
       THEN /\ block' = 0
            /\ round_number' = round_number + 1
            /\ mine_pc' = "tx"
       ELSE /\ block' = block + 1
            /\ round_number' = round_number
            /\ mine_pc' = "done"

\* run_round, the mining request raises RequestException: nothing is written
MineFails ==
    /\ mine_pc = "mine"
    /\ AfterBlock
    /\ UNCHANGED <<argVars, poolVars, dataVars, resultVars, histVars, warmed,
                   resVars, aggVars, ttVars, chain_length, results_file,
                   load_data, cleared, mined>>

\* run_round, the mining request succeeds: one line is appended
MineWrites ==
    /\ mine_pc = "mine"
    /\ \E response_data \in ResponseData :
         results_file' = [results_file EXCEPT ![round_number] =
                            AppendLine(@, TimeTookLine(response_data))]
    /\ mined' = [mined EXCEPT ![round_number] = @ + 1]
    /\ AfterBlock
    /\ UNCHANGED <<argVars, poolVars, dataVars, resultVars, histVars, warmed,
                   resVars, aggVars, ttVars, chain_length, load_data,
                   cleared>>

\* the visualization reads the files of the hash name
LoadResults ==
    /\ mine_pc = "done"
    /\ load_data' = load_results(results_file)
    /\ mine_pc' = "loaded"
    /\ UNCHANGED <<argVars, poolVars, dataVars, resultVars, histVars, warmed,
                   resVars, aggVars, ttVars, chain_length, round_number,
                   block, tx, results_file, cleared, txFailed, mineRequests,
                   mined, minedAfterTxFail>>

MineNext == clear_prev_result \/ PostTx \/ MineFails \/ MineWrites \/ LoadResults

MineSpec == MineInit /\ [][MineNext]_vars

\* ================================================================ claims
HasRow(t) == \E i \in 1..Len(summary_results) :
                summary_results[i][1] = t[1] /\ summary_results[i][2] = t[2]

Holders(t) == {w \in Workers : cur[w] = t}

\* ---- C1
\* C1: every run of a pool returns: the workers leave their loops once the
\* queue is drained and the main thread gets through all its joins.
C1_RunReturns == impl \in {"mt", "hs"} => <>(main_pc = "returned")

\* ---- C2
\* C2: when a pool run has returned, every task of the queue was executed
\* (measure_hashing_speed was called for it) exactly once.
C2_ExactlyNExecutions ==
    (impl \in {"mt", "hs"} /\ main_pc = "returned")
        => \A t \in TaskSet : execCount[t] = 1

\* ---- C3
C3_OnePlace ==
    \A i \in 1..qi :
        Count(queue, Tasks[i]) + Cardinality(Holders(Tasks[i]))
            + Count(finished, Tasks[i]) = 1

\* C3: every task that was handed to the pool is in exactly one place: on the
\* queue, held by exactly one worker, or finished; and once a thread has been
\* started the queue never grows (a task is never put back, failed or not).
C3_ExclusiveHandOff ==
    /\ []C3_OnePlace
    /\ [][started > 0 => Len(queue') <= Len(queue)]_vars

\* one task has failed and is not back on the queue while a worker holds another
C3_Witness ==
    /\ impl = "mt"
    /\ failedTasks # {}
    /\ queue = << >>
    /\ \E w \in Workers : cur[w] # NoTask /\ cur[w] \notin failedTasks

\* ---- C4
\* C4: when a run has returned, every task whose own execution did not raise
\* has its row in the result list, whatever happened to the other tasks.
C4_SiblingsSurvive ==
    (impl \in {"mt", "hs"} /\ main_pc = "returned")
        => \A t \in TaskSet \ failedTasks : HasRow(t)

\* ---- C5
\* the value the run returns: (timing_results, summary_results), results, None
ReturnValue ==
    IF impl = "mt" THEN <<timing_results, summary_results>>
    ELSE IF impl = "hs" THEN <<summary_results>>
    ELSE << >>

\* the error list of the returned value: a component after samples and summaries
ReturnedErrors == IF Len(ReturnValue) >= 3 THEN ReturnValue[3] ELSE << >>

C6_NoPartialRead ==
    \A w \in Workers :
        (impl = "hs" /\ pc[w] = "hash" /\ callSawFile[w])
            => data[w] = DataList(iterations, cur[w][2])

\* ---- C7
\* C7: a step changes a dataset file only on behalf of a generator call that
\* began while the file did not exist; a call that began when the file existed
\* never writes to it, empties it or recreates it, and its cache hit returns
\* what is stored and leaves all files as they are.
C7_NoWriteByLaterCall ==
    [][ /\ \A k \in AllSizes :
             fs'[k] # fs[k] =>
                \E w \in Workers :
                    /\ cur[w][2] = k
                    /\ pc[w] \in {"gen_create", "gen_open", "gen_write"}
                    /\ ~callSawFile[w]
                    /\ (pc'[w] # pc[w] \/ woff'[w] # woff[w])
        /\ \A w \in Workers :
             (pc[w] = "gen_read" /\ pc'[w] = AfterGen(impl)) =>
                /\ fs' = fs
                /\ data'[w] = ReadDataset(fs[cur[w][2]].bytes)
      ]_vars

\* a call that began after the file came into being has taken the hit path
\* while the creating call of another worker is still writing
C7_Witness ==
    \E w, v \in Workers :
        /\ impl = "hs"
        /\ pc[w] = "hash"
        /\ callSawFile[w]
        /\ pc[v] = "gen_write"
        /\ cur[v][2] = cur[w][2]

\* ---- C8
\* C8: whatever path a call of the string generator took, it returns the one
\* content its key stands for: `iterations` payloads of size_mb * 1024 * 1024
\* bytes.
C8_Deterministic ==
    \A w \in Workers :
        (impl = "hs" /\ pc[w] = "hash")
            => /\ Len(data[w]) = iterations
               /\ \A n \in 1..Len(data[w]) :
                    data[w][n] = [i \in 1..SizeBytes(cur[w][2]) |-> "a"]

\* ---- C9
\* the summary row a task gets when nothing interferes with it
ExpectedRow(t) ==
    IF impl = "hs"
    THEN SummaryRow(t, iterations,
                    StringSummary(HashMs(t[1], DataList(iterations, t[2])),
                                  t[2], iterations))
    ELSE SummaryRow(t, iterations, FileSummary(PassTimings(t), t[2], iterations))

\* C9: a run of a hash runner with known algorithms in which the environment
\* made no operation fail ends with the
\* same rows whatever its number of workers and its interleaving: one summary
\* row per task, the row of the task, and RUNS_PER_TEST timing rows per task
\* in the file runners.
C9_SameResult ==
    (/\ impl \in {"mt", "hs", "st"}
     /\ main_pc = "returned"
     /\ faults = 0
     /\ \A i \in 1..Len(algorithms) : algorithms[i] \in ValidAlgos) =>
        /\ Len(summary_results) = NumTasks
        /\ \A t \in TaskSet : Count(summary_results, ExpectedRow(t)) = 1
        /\ impl # "hs" => Len(timing_results) = RUNS_PER_TEST * NumTasks

\* ---- C10
\* C10: total_time_ms is the sum of the elapsed times, avg_time_ms is the total
\* over the number of passes, and speed_mbps is data_size_mb times the number
\* of iterations, or times the number of passes, over the total in seconds.
C10_Aggregation ==
    agg_out # NoAgg =>
        LET passes == IF impl = "mt" THEN Len(agg_in.ts) ELSE agg_in.iters
            total == SumSeq(agg_in.ts) IN
        /\ agg_out.total = total
        /\ RatEq(agg_out.avg, Quot(total, passes))
        /\ \/ RatEq(agg_out.speed, Quot(agg_in.size * agg_in.iters * MsPerSecond, total))
           \/ RatEq(agg_out.speed, Quot(agg_in.size * passes * MsPerSecond, total))

\* ---- C13
\* C13: a run whose arguments hold an unknown algorithm name is rejected before
\* anything is done: no task is put on the queue or taken up, no worker is
\* started, no call of measure_hashing_speed is made and no dataset is created.
C13_FailFast ==
    (\E i \in 1..Len(algorithms) : algorithms[i] \notin ValidAlgos) =>
        /\ qi = 0
        /\ started = 0
        /\ \A t \in AllTasks : execCount[t] = 0
        /\ \A w \in Workers : pc[w] \notin {"gen_create", "gen_open", "gen_write"}

\* ---- C14
\* the rows of a task in the list its runner builds
HasResult(t) ==
    IF impl \in {"ru", "rc"}
    THEN \E i \in 1..Len(results) : results[i][1] = t[1] /\ results[i][2] = t[2]
    ELSE HasRow(t)

\* C14: in the threaded file runner, the sequential hash runner and the
\* sequential resource runner a dataset that cannot be created or read makes
\* only its own task fail: the failure is reported, the runner is not ended by
\* it, and when the run is over every other task has its rows.
C14_StorageErrorIsolated ==
    (/\ impl \in {"mt", "st", "ru"}
     /\ \A t \in AllTasks : failCause[t] \in {"none", "storage"}) =>
        /\ \A w \in Workers : pc[w] \notin {"crashed", "dead"}
        /\ \A t \in failedTasks : Count(printed, t) = 1
        /\ main_pc = "returned" =>
             \A t \in TaskSet \ failedTasks :
                execCount[t] = 1 /\ (iterations > 0 => HasResult(t))

\* ---- C15
\* C15: in the resource runners a CPU or memory probe that fails makes no task
\* fail and does not end the run.
C15_SamplerDegrades ==
    impl \in {"ru", "rc"} => \A t \in AllTasks : failCause[t] # "sampler"

\* ---- C16
AppendSection == {"append_timings", "append_summary"}

C16_LockInv ==
    /\ \A w \in Workers : pc[w] \in AppendSection <=> lock = w
    /\ Cardinality({w \in Workers : pc[w] \in AppendSection}) <= 1

\* C16: the lock is held exactly by the worker that is appending its rows, so
\* by none that pops, creates or reads a dataset or hashes, and by at most one;
\* it is taken only when free and it is free again whenever a worker leaves the
\* append section.
C16_LockDiscipline ==
    /\ []C16_LockInv
    /\ [][lock' # lock => (lock = 0 \/ lock' = 0)]_vars
    /\ [][\A w \in Workers :
            (pc[w] \in AppendSection /\ pc'[w] \notin AppendSection) => lock' = 0]_vars

\* one worker appends under the lock while another is in its timed passes
C16_Witness ==
    \E w, v \in Workers :
        /\ w # v
        /\ lock = w
        /\ pc[w] \in AppendSection
        /\ pc[v] \in {"pass", "hash"}

\* ---- C17
TimingRowsOf(t) ==
    {i \in 1..Len(timing_results) :
        timing_results[i][1] = t[1] /\ timing_results[i][2] = t[2]}

SummaryRowsOf(t) ==
    {i \in 1..Len(summary_results) :
        summary_results[i][1] = t[1] /\ summary_results[i][2] = t[2]}

RECURSIVE SumTimings(_, _)
SumTimings(rows, t) ==
    IF rows = << >> THEN 0
    ELSE (IF Head(rows)[1] = t[1] /\ Head(rows)[2] = t[2] THEN Head(rows)[3] ELSE 0)
         + SumTimings(Tail(rows), t)

\* C17: in the file runners, whenever the lock is free, every (algorithm, size)
\* has RUNS_PER_TEST timing rows per summary row, the total of each summary row
\* is the sum of the timing rows of its key, and a task that failed has neither
\* kind of row.
C17_SamplesMatchSummaries ==
    (impl \in {"mt", "st"} /\ lock = 0) =>
        \A t \in AllTasks :
            /\ Cardinality(TimingRowsOf(t)) = RUNS_PER_TEST * Cardinality(SummaryRowsOf(t))
            /\ \A i \in SummaryRowsOf(t) :
                 summary_results[i][4] = SumTimings(timing_results, t)
            /\ t \in failedTasks => (TimingRowsOf(t) = {} /\ SummaryRowsOf(t) = {})

\* the lock is free, one task has its rows and another has failed
C17_Witness ==
    /\ impl = "mt"
    /\ lock = 0
    /\ failedTasks # {}
    /\ \E t \in TaskSet \ failedTasks : SummaryRowsOf(t) # {}

\* ---- C18
WarmUpsOfKey(k) ==
    LET ts == {t \in AllTasks : t[2] = k}
        RECURSIVE Sum(_)
        Sum(S) == IF S = {} THEN 0
                  ELSE LET x == CHOOSE y \in S : TRUE IN warmed[x] + Sum(S \ {x})
    IN Sum(ts)

\* C18 as stated: over a run of a file runner the warm-up pass is executed at
\* most once per dataset key, however many tasks use the key.
C18_OncePerDatasetKey ==
    impl \in {"mt", "st"} => \A k \in AllSizes : WarmUpsOfKey(k) <= 1

\* C18 as amended: in the file runners the warm-up pass is executed once per
\* task (once in each call of measure_hashing_speed that gets that far): a task
\* is in or past its timed passes only after its one warm-up has completed, the
\* timings list is empty when the first timed pass starts, and a task never has
\* more than RUNS_PER_TEST timing rows.
C18_WarmUpPerTask ==
    impl \in {"mt", "st"} =>
        /\ \A t \in AllTasks : warmed[t] <= execCount[t] /\ warmed[t] <= 1
        /\ \A w \in Workers :
             pc[w] \in {"pass", "lock", "append_timings", "append_summary", "st_append"}
                => warmed[cur[w]] = 1
        /\ \A w \in Workers : pc[w] = "pass" => timings[w] = << >>
        /\ \A t \in AllTasks :
             /\ Cardinality(TimingRowsOf(t)) <= RUNS_PER_TEST
             /\ TimingRowsOf(t) # {} => warmed[t] = 1

\* two tasks over the same dataset have each had their own warm-up pass
C18_Witness ==
    /\ impl \in {"mt", "st"}
    /\ \E t, u \in TaskSet :
         t # u /\ t[2] = u[2] /\ warmed[t] = 1 /\ warmed[u] = 1

\* ---- C19
TaskIndex(t) == CHOOSE i \in 1..NumTasks : Tasks[i] = t

RowKey(r) == <<r[1], r[2]>>

\* C19: the tasks popped so far are, in pop order, the first tasks in push
\* order, which is the order of the nested loops (algorithm-major); and with a
\* single worker the summary rows are in push order, all of them when no task
\* failed.
C19_Fifo ==
    impl \in {"mt", "hs"} =>
        /\ Len(popped) <= qi
        /\ \A i \in 1..Len(popped) :
             popped[i] = <<algorithms[((i - 1) \div Len(data_sizes_mb)) + 1],
                           data_sizes_mb[((i - 1) % Len(data_sizes_mb)) + 1]>>
        /\ num_threads = 1 =>
             /\ \A i, j \in 1..Len(summary_results) :
                  i < j => TaskIndex(RowKey(summary_results[i]))
                             < TaskIndex(RowKey(summary_results[j]))
             /\ (main_pc = "returned" /\ failedTasks = {}) =>
                  /\ Len(summary_results) = NumTasks
                  /\ \A i \in 1..NumTasks : RowKey(summary_results[i]) = Tasks[i]

\* a single worker has popped two tasks and both rows are there
C19_Witness ==
    /\ impl \in {"mt", "hs"}
    /\ num_threads = 1
    /\ Len(popped) = 2
    /\ Len(summary_results) = 2

\* ---- C11
\* the values of one side of a comparison: those of its data size, or all of
\* the algorithm when the routine does not group
SideValues(e, algo) ==
    IF e.size = 0 THEN SpeedsOf(TTRows(tt_in), algo)
    ELSE ValuesOf(TTRows(tt_in), algo, e.size)

\* C11: no t-test routine emits a comparison one of whose sides has fewer than
\* 2 values.
C11_SkipInsufficient ==
    tt_done =>
        \A i \in 1..Len(tt_out) :
            /\ Len(SideValues(tt_out[i], tt_out[i].a1)) >= 2
            /\ Len(SideValues(tt_out[i], tt_out[i].a2)) >= 2

\* ---- C12
\* an emitted statistic e is within 10^-tol of the statistic t
Within(e, t, tol) ==
    IF e.kind # "dec" THEN e = t
    ELSE /\ t.kind = "sqrt"
         /\ (e.num = 0 \/ e.sign = t.sign)
         /\ LET scale == Pow10(tol - e.den)
                target == BigMul(BigPow10(2 * tol), BigOf(t.num))
            IN /\ (e.num = 0 \/ BigLeq(BigSqTimes(scale * e.num - 1, t.den), target))
               /\ BigLeq(target, BigSqTimes(scale * e.num + 1, t.den))

\* C12: the statistic emitted in a comparison is within 1e-6 of the Welch
\* statistic of its two sides.
C12_WelchWithinTolerance ==
    tt_done =>
        \A i \in 1..Len(tt_out) :
            Within(tt_out[i].t,
                   WelchT(SideValues(tt_out[i], tt_out[i].a1),
                          SideValues(tt_out[i], tt_out[i].a2)),
                   6)

\* ---- C20
\* the pairs a routine is to compare and the groups it is to compare them in
ConfiguredPairs ==
    IF tt_routine = "hs"
    THEN {p \in SUBSET AlgosIn(TTRows(tt_in)) : Cardinality(p) = 2}
    ELSE {{comparison_pairs[i][1], comparison_pairs[i][2]} :
            i \in 1..Len(comparison_pairs)}

Groups ==
    IF tt_routine = "hs" THEN {0}
    ELSE {TTRows(tt_in)[i][2] : i \in 1..Len(TTRows(tt_in))}

EnoughSamples(g, p) ==
    \A a \in p : Len(SideValues([size |-> g], a)) >= 2

\* C20: the output holds one comparison for every configured pair and group in
\* which both sides have at least 2 values, and nothing else: every entry is
\* such a combination, of two different algorithms, and none comes twice.
C20_ExactlyTheComparisons ==
    tt_done =>
        /\ \A g \in Groups, p \in ConfiguredPairs :
             EnoughSamples(g, p) =>
                Cardinality({i \in 1..Len(tt_out) :
                    tt_out[i].size = g /\ {tt_out[i].a1, tt_out[i].a2} = p}) = 1
        /\ \A i \in 1..Len(tt_out) :
             /\ tt_out[i].a1 # tt_out[i].a2
             /\ tt_out[i].size \in Groups
             /\ {tt_out[i].a1, tt_out[i].a2} \in ConfiguredPairs
             /\ EnoughSamples(tt_out[i].size, {tt_out[i].a1, tt_out[i].a2})

\* ---- C21
RECURSIVE MaxOf(_)
MaxOf(rs) == IF rs = << >> THEN 0 ELSE Max(Head(rs), MaxOf(Tail(rs)))

\* C21: in the resource runners peak_memory_mb is at every moment the largest
\* memory reading taken so far in the call (0 before the first), it never
\* decreases within a call, and every row appended for the task carries the
\* peak reached after the last reading.
C21_PeakIsRunningMax ==
    /\ [](impl \in {"ru", "rc"} => peak_memory_mb = MaxOf(rss_readings))
    /\ [][\A w \in Workers :
            (pc[w] \in {"res_pass", "res_item", "res_cpu"})
                => peak_memory_mb' >= peak_memory_mb]_vars
    /\ [][\A i \in (Len(results) + 1)..Len(results') :
            results'[i][Len(results'[i])] = MaxOf(rss_readings)]_vars

\* the largest reading of a task was not its last one and its rows are about to
\* be appended
C21_Witness ==
    /\ impl = "ru"
    /\ pc[1] = "res_append"
    /\ Len(rss_readings) >= 2
    /\ rss_readings[Len(rss_readings)] < peak_memory_mb

\* ---- C22
\* C22: in a pool run with known algorithms in which the environment makes no
\* operation fail, no task fails, whatever the interleaving of the workers
\* that want the same dataset, and when the run has returned every task has
\* its summary row.
C22_NoCreationRaceFailure ==
    (/\ impl \in {"mt", "hs"}
     /\ faults = 0
     /\ \A i \in 1..Len(algorithms) : algorithms[i] \in ValidAlgos) =>
        /\ failedTasks = {}
        /\ main_pc = "returned" => \A t \in TaskSet : HasRow(t)

\* ---- C23
\* C23: when the rounds of a hash name have run, every block of every round
\* had its mining request whether or not a transaction POST failed; after a
\* clear that removed every old file each results file holds one line per
\* successful mining request and at most chain_length lines; and every line
\* of every results file parses as an integer, so load_results does not raise.
C23_ResultsFilesParseable ==
    mine_pc \in {"done", "loaded"} =>
        /\ \A r \in Rounds : mineRequests[r] = chain_length
        /\ cleared => \A r \in Rounds :
                        /\ Len(results_file[r].lines) = mined[r]
                        /\ Len(results_file[r].lines) <= chain_length
        /\ \A r \in Rounds : \A i \in 1..Len(results_file[r].lines) :
              ParseInt(Strip(results_file[r].lines[i])).ok
        /\ load_data.raised = "none"

====
